---- MODULE Spec2Model ----
(***************************************************************************)
(* Model of the LediGlow demo authentication server (src/server.js).       *)
(*                                                                         *)
(* The server keeps two in-memory tables, users and sessions, and serves   *)
(* four routes.  /api/signup and /api/login are async handlers: each runs  *)
(* synchronously up to its single await (bcrypt.hash / bcrypt.compare),    *)
(* is suspended there, and later resumes and runs synchronously to its     *)
(* response.  /api/me and /api/logout are synchronous.  Node runs one      *)
(* synchronous segment at a time, so every segment is one atomic action.   *)
(*                                                                         *)
(* Strings are tuples of one-character strings, so that the email regular  *)
(* expression and password.length are computed and not assumed.            *)
(***************************************************************************)
EXTENDS Integers, Sequences, FiniteSets, TLC

(* ---- bounds of the model ---- *)
\* number of requests that can be in the server (suspended or answered) at once
MaxReqs == 2
\* number of distinct values Math.random() can contribute to a session id
NumSids == 2
\* number of distinct salts bcrypt.hash can draw
NumSalts == 1
\* last millisecond of the modelled clock (now is the latest time read so far)
MaxNow == 1

(* ---- request inputs ---- *)
\* an absent or empty field: undefined and '' take the same branch of !x
Missing == <<>>

EmailLower == <<"a", "@", "b", ".", "c">>
EmailUpper == <<"A", "@", "b", ".", "c">>
EmailBad == <<"a", "b">>
EmailInputs == {Missing, EmailBad, EmailLower, EmailUpper}

Pw1 == <<"p", "a", "s", "s", "w", "o", "r", "1">>
Pw2 == <<"p", "a", "s", "s", "w", "o", "r", "2">>
PwShort == <<"s", "h", "o", "r", "t">>
PasswordInputs == {Missing, PwShort, Pw1, Pw2}

Reqs == 1..MaxReqs
Salts == 1..NumSalts

\* createSid: 's' + Math.random().toString(36).slice(2)
SidOf(n) == <<"s", n>>
Sids == {SidOf(n) : n \in 1..NumSids}
\* the sid cookie of a request: absent, or any string the client sends
CookieInputs == {Missing} \cup Sids

VARIABLES users, sessions, reqs, now

vars == <<users, sessions, reqs, now>>

(* ---- pure helpers ---- *)
\* !x for a string: undefined and '' are falsy
Falsy(s) == Len(s) = 0

Whitespace == {" ", "\t", "\n"}

\* /^\S+@\S+\.\S+$/.test(email)
EmailRegexTest(s) ==
    /\ \A k \in 1..Len(s) : s[k] \notin Whitespace
    /\ \E i \in 1..Len(s) : \E j \in 1..Len(s) :
          /\ 1 < i
          /\ i + 1 < j
          /\ j < Len(s)
          /\ s[i] = "@"
          /\ s[j] = "."

\* bcrypt.hash(password, 12): a salted one-way hash of the password
BcryptHash(password, salt) == [salt |-> salt, pw |-> password]

\* bcrypt.compare(password, hash)
BcryptCompare(password, hash) == hash.pw = password

\* users[email] is truthy
HasUser(u, email) == email \in DOMAIN u

\* sessions[sid] is truthy
HasSession(s, sid) == sid \in DOMAIN s

\* obj[key] = value on a plain object
Put(f, k, v) == [x \in (DOMAIN f) \cup {k} |-> IF x = k THEN v ELSE f[x]]

\* delete obj[key]
Delete(f, k) == [x \in (DOMAIN f) \ {k} |-> f[x]]

(* ---- responses ---- *)
NoField == "none"
NoId == -1

Response(status, ok, field, message) ==
    [status |-> status, ok |-> ok, field |-> field, message |-> message,
     setSid |-> Missing, cleared |-> FALSE, email |-> Missing, id |-> NoId]

NoResponse == Response(0, FALSE, NoField, "none")

InvalidEmail == Response(400, FALSE, "email", "Invalid email")
PasswordTooShort == Response(400, FALSE, "password", "Password too short")
AlreadyRegistered == Response(409, FALSE, "email", "Email already registered")
ServerError == Response(500, FALSE, NoField, "Server error")
MissingFields == Response(400, FALSE, NoField, "Missing fields")
UnknownEmail == Response(401, FALSE, "email", "Invalid credentials")
WrongPassword == Response(401, FALSE, "password", "Invalid credentials")
NotAuthenticated == Response(401, FALSE, NoField, "Not authenticated")
\* res.cookie('sid', sid, ...); res.json({ ok:true, redirect:'/dashboard.html' })
Redirect(sid) == [Response(200, TRUE, NoField, "none") EXCEPT !.setSid = sid]
LoggedOut(cleared) == [Response(200, TRUE, NoField, "none") EXCEPT !.cleared = cleared]
Identity(user) == [Response(200, TRUE, NoField, "none") EXCEPT !.email = user.email, !.id = user.id]

(* ---- request slots ---- *)
NoHash == BcryptHash(Missing, 0)

Idle == [pc |-> "idle", op |-> "none", email |-> Missing, password |-> Missing,
         sid |-> Missing, hash |-> NoHash, resp |-> NoResponse]

Request(pc, op, email, password, sid, hash, resp) ==
    [pc |-> pc, op |-> op, email |-> email, password |-> password,
     sid |-> sid, hash |-> hash, resp |-> resp]

\* res.json(...): the handler returns.  The answered request keeps the key it
\* was about (email or sid cookie); the plaintext password and the captured
\* hash go out of scope with the handler's frame.
Answer(r, op, email, sid, resp) ==
    reqs' = [reqs EXCEPT ![r] = Request("done", op, email, Missing, sid, NoHash, resp)]

Init ==
    /\ users = <<>>
    /\ sessions = <<>>
    /\ reqs = [r \in Reqs |-> Idle]
    /\ now = 0

(* ---- POST /api/signup ---- *)
\* the account record written at line 50; Date.now() and new Date() are
\* evaluated in the same expression and both give the time t
NewUser(email, hash, t) ==
    [id |-> t, email |-> email, passwordHash |-> hash, createdAt |-> t]

\* SignupCheck without the duplicate check of line 46
SignupCheckNoDuplicate(u, email, password) ==
    IF Falsy(email) \/ ~EmailRegexTest(email) THEN InvalidEmail
    ELSE IF Falsy(password) \/ Len(password) < 8 THEN PasswordTooShort
    ELSE NoResponse

\* SignupCheck with the duplicate check of line 46 moved before the validation
SignupCheckDuplicateFirst(u, email, password) ==
    IF HasUser(u, email) THEN AlreadyRegistered
    ELSE IF Falsy(email) \/ ~EmailRegexTest(email) THEN InvalidEmail
    ELSE IF Falsy(password) \/ Len(password) < 8 THEN PasswordTooShort
    ELSE NoResponse

\* the validation and duplicate check a signup performs before it hashes
SignupCheck(u, email, password) ==
    IF Falsy(email) \/ ~EmailRegexTest(email) THEN InvalidEmail
    ELSE IF Falsy(password) \/ Len(password) < 8 THEN PasswordTooShort
    ELSE IF HasUser(u, email) THEN AlreadyRegistered
    ELSE NoResponse

\* SignupStart of a handler that does not await bcrypt.hash: it stores the
\* pending hash and the session and answers at once
SignupStartNoAwait(r, email, password) ==
    /\ reqs[r].pc = "idle"
    /\ IF SignupCheck(users, email, password) # NoResponse
       THEN /\ Answer(r, "signup", email, Missing, SignupCheck(users, email, password))
            /\ UNCHANGED <<users, sessions>>
       ELSE /\ users' = Put(users, email, NewUser(email, NoHash, now))
            /\ sessions' = Put(sessions, SidOf(1), email)
            /\ Answer(r, "signup", email, Missing, Redirect(SidOf(1)))
    /\ UNCHANGED now

\* lines 43-49: validate, check for a duplicate, start bcrypt.hash
SignupStart(r, email, password) ==
    /\ reqs[r].pc = "idle"
    /\ IF SignupCheck(users, email, password) # NoResponse
       THEN Answer(r, "signup", email, Missing, SignupCheck(users, email, password))
       ELSE reqs' = [reqs EXCEPT ![r] =
                       Request("hashing", "signup", email, password, Missing, NoHash, NoResponse)]
    /\ UNCHANGED <<users, sessions, now>>

\* lines 49-57: the hash resolved; store the user, create the session, answer.
\* t is the time read at line 50: the clock never runs backwards, so now <= t.
\* n is the draw of Math.random() in createSid: nothing in the code keeps it
\* apart from the sids in use.
SignupHashDone(r, salt, n, t) ==
    /\ reqs[r].pc = "hashing"
    /\ now <= t
    /\ users' = Put(users, reqs[r].email,
                    NewUser(reqs[r].email, BcryptHash(reqs[r].password, salt), t))
    /\ sessions' = Put(sessions, SidOf(n), reqs[r].email)
    /\ now' = t
    /\ Answer(r, "signup", reqs[r].email, Missing, Redirect(SidOf(n)))

\* SignupHashFail of a handler that records the session before it hashes
SignupHashFailKeepsSession(r) ==
    /\ reqs[r].pc = "hashing"
    /\ sessions' = Put(sessions, SidOf(1), reqs[r].email)
    /\ Answer(r, "signup", reqs[r].email, Missing, ServerError)
    /\ UNCHANGED <<users, now>>

\* lines 58-60: bcrypt.hash rejected
SignupHashFail(r) ==
    /\ reqs[r].pc = "hashing"
    /\ Answer(r, "signup", reqs[r].email, Missing, ServerError)
    /\ UNCHANGED <<users, sessions, now>>

(* ---- POST /api/login ---- *)
\* lines 71-77: check the fields, look the user up, start bcrypt.compare
LoginStart(r, email, password) ==
    /\ reqs[r].pc = "idle"
    /\ IF Falsy(email) \/ Falsy(password)
       THEN Answer(r, "login", email, Missing, MissingFields)
       ELSE IF ~HasUser(users, email)
       THEN Answer(r, "login", email, Missing, UnknownEmail)
       ELSE reqs' = [reqs EXCEPT ![r] =
                       Request("comparing", "login", email, password, Missing,
                               users[email].passwordHash, NoResponse)]
    /\ UNCHANGED <<users, sessions, now>>

\* LoginCompareDone that keeps one session per account: a successful login
\* drops the sessions its email already has
LoginCompareDoneSingleSession(r, n) ==
    /\ reqs[r].pc = "comparing"
    /\ IF ~BcryptCompare(reqs[r].password, reqs[r].hash)
       THEN /\ Answer(r, "login", reqs[r].email, Missing, WrongPassword)
            /\ UNCHANGED sessions
       ELSE /\ sessions' = Put([x \in {k \in DOMAIN sessions : sessions[k] # reqs[r].email}
                                   |-> sessions[x]],
                               SidOf(n), reqs[r].email)
            /\ Answer(r, "login", reqs[r].email, Missing, Redirect(SidOf(n)))
    /\ UNCHANGED <<users, now>>

\* LoginCompareDone that records the session before it looks at the result
LoginCompareDoneSessionFirst(r, n) ==
    /\ reqs[r].pc = "comparing"
    /\ sessions' = Put(sessions, SidOf(n), reqs[r].email)
    /\ IF ~BcryptCompare(reqs[r].password, reqs[r].hash)
       THEN Answer(r, "login", reqs[r].email, Missing, WrongPassword)
       ELSE Answer(r, "login", reqs[r].email, Missing, Redirect(SidOf(n)))
    /\ UNCHANGED <<users, now>>

\* lines 77-82: the comparison resolved
LoginCompareDone(r, n) ==
    /\ reqs[r].pc = "comparing"
    /\ IF ~BcryptCompare(reqs[r].password, reqs[r].hash)
       THEN /\ Answer(r, "login", reqs[r].email, Missing, WrongPassword)
            /\ UNCHANGED sessions
       ELSE /\ sessions' = Put(sessions, SidOf(n), reqs[r].email)
            /\ Answer(r, "login", reqs[r].email, Missing, Redirect(SidOf(n)))
    /\ UNCHANGED <<users, now>>

\* LoginCompareFail that lets the login through when the comparison throws
LoginCompareFailOpen(r) ==
    /\ reqs[r].pc = "comparing"
    /\ sessions' = Put(sessions, SidOf(1), reqs[r].email)
    /\ Answer(r, "login", reqs[r].email, Missing, Redirect(SidOf(1)))
    /\ UNCHANGED <<users, now>>

\* lines 83-85: bcrypt.compare rejected
LoginCompareFail(r) ==
    /\ reqs[r].pc = "comparing"
    /\ Answer(r, "login", reqs[r].email, Missing, ServerError)
    /\ UNCHANGED <<users, sessions, now>>

(* ---- GET /api/me ---- *)
\* MeResponse that falls back to the only account when the cookie names no session
MeResponseAnyCookie(u, s, sid) ==
    IF Falsy(sid) THEN NotAuthenticated
    ELSE IF HasSession(s, sid) /\ HasUser(u, s[sid]) THEN Identity(u[s[sid]])
    ELSE IF Cardinality(DOMAIN u) = 1 THEN Identity(u[CHOOSE e \in DOMAIN u : TRUE])
    ELSE NotAuthenticated

\* the response of /api/me for a sid cookie in the tables u, s
MeResponse(u, s, sid) ==
    IF Falsy(sid) \/ ~HasSession(s, sid) THEN NotAuthenticated
    ELSE IF ~HasUser(u, s[sid]) THEN NotAuthenticated
    ELSE Identity(u[s[sid]])

Me(r, sid) ==
    /\ reqs[r].pc = "idle"
    /\ Answer(r, "me", Missing, sid, MeResponse(users, sessions, sid))
    /\ UNCHANGED <<users, sessions, now>>

(* ---- POST /api/logout ---- *)
\* LogoutSessions that drops every session
LogoutSessionsAll(s, sid) == IF Falsy(sid) THEN s ELSE <<>>

\* LogoutSessions that only clears the cookie and keeps the session
LogoutSessionsKeep(s, sid) == s

\* LogoutSessions that deletes the sid cookie's session, or else the session of
\* the smallest sid in use
LogoutSessionsSome(s, sid) ==
    IF Falsy(sid) \/ DOMAIN s = {} THEN s
    ELSE IF HasSession(s, sid) THEN Delete(s, sid)
    ELSE Delete(s, CHOOSE k \in DOMAIN s : \A x \in DOMAIN s : k[2] <= x[2])

\* the session table after /api/logout with a sid cookie
LogoutSessions(s, sid) == IF Falsy(sid) THEN s ELSE Delete(s, sid)

Logout(r, sid) ==
    /\ reqs[r].pc = "idle"
    /\ sessions' = LogoutSessions(sessions, sid)
    /\ Answer(r, "logout", Missing, sid, LoggedOut(~Falsy(sid)))
    /\ UNCHANGED <<users, now>>

(* ---- environment ---- *)
\* the response has been sent; the request is over
Deliver(r) ==
    /\ reqs[r].pc = "done"
    /\ reqs' = [reqs EXCEPT ![r] = Idle]
    /\ UNCHANGED <<users, sessions, now>>

Next ==
    \/ \E r \in Reqs, email \in EmailInputs, password \in PasswordInputs :
          SignupStart(r, email, password)
    \/ \E r \in Reqs, salt \in Salts, n \in 1..NumSids, t \in 0..MaxNow :
          SignupHashDone(r, salt, n, t)
    \/ \E r \in Reqs : SignupHashFail(r)
    \/ \E r \in Reqs, email \in EmailInputs, password \in PasswordInputs :
          LoginStart(r, email, password)
    \/ \E r \in Reqs, n \in 1..NumSids : LoginCompareDone(r, n)
    \/ \E r \in Reqs : LoginCompareFail(r)
    \/ \E r \in Reqs, sid \in CookieInputs : Me(r, sid)
    \/ \E r \in Reqs, sid \in CookieInputs : Logout(r, sid)
    \/ \E r \in Reqs : Deliver(r)

Spec == Init /\ [][Next]_vars

(* ---- the notification of line 52 ---- *)
\* lines 49-52 and 58-60: the hash resolved and the account was stored, then
\* the call that sends the verification email threw: control leaves the try
\* block for the catch, which answers 500; lines 54-57 are skipped.  The call
\* is console.log in the stub ("replace with real email provider", line 51).
SignupNotifyFail(r, salt, t) ==
    /\ reqs[r].pc = "hashing"
    /\ now <= t
    /\ users' = Put(users, reqs[r].email,
                    NewUser(reqs[r].email, BcryptHash(reqs[r].password, salt), t))
    /\ now' = t
    /\ Answer(r, "signup", reqs[r].email, Missing, ServerError)
    /\ UNCHANGED sessions

\* the server with a notification call that can throw
NextNotify ==
    \/ Next
    \/ \E r \in Reqs, salt \in Salts, t \in 0..MaxNow : SignupNotifyFail(r, salt, t)

SpecNotify == Init /\ [][NextNotify]_vars

(* ======================================================================= *)
(* Properties                                                              *)
(* ======================================================================= *)
ValidEmails == {e \in EmailInputs : ~Falsy(e) /\ EmailRegexTest(e)}
ValidPasswords == {p \in PasswordInputs : ~Falsy(p) /\ Len(p) >= 8}

\* request r has been answered by handler op
Answered(r, op) == reqs[r].pc = "done" /\ reqs[r].op = op

\* the step takes request r of handler op in
Starts(r, op) == reqs[r].pc = "idle" /\ reqs'[r].op = op

\* the step answers request r of handler op
Answers(r, op) == reqs[r].pc # "done" /\ reqs'[r].pc = "done" /\ reqs'[r].op = op

\* the step records a session under sid (line 55 or line 80)
Mints(sid) == \E r \in Reqs : reqs[r].pc # "done" /\ reqs'[r].pc = "done" /\ reqs'[r].resp.setSid = sid

\* a Login(email, password) run against the accounts u, from line 71 to line 82
\* with no other request in between and bcrypt.compare resolving, succeeds
LoginSucceeds(u, email, password) ==
    /\ ~Falsy(email) /\ ~Falsy(password)
    /\ HasUser(u, email)
    /\ BcryptCompare(password, u[email].passwordHash)

\* C1: of two signups for the same email that are in the server together, at
\* most one is answered with success: it never happens that both are.
C1_OneSignupWins ==
    \A r1 \in Reqs : \A r2 \in Reqs :
        (/\ r1 # r2
         /\ Answered(r1, "signup") /\ Answered(r2, "signup")
         /\ reqs[r1].email = reqs[r2].email
         /\ reqs[r1].resp.ok)
        => ~reqs[r2].resp.ok

\* C2: a valid signup for an email that already has an account is answered 409
\* Conflict at once, sets no session cookie, and leaves accounts and sessions as
\* they were, so that every password logs in after it exactly if it did before.
C2_DuplicateSignupConflict ==
    [][\A r \in Reqs : \A email \in ValidEmails : \A password \in ValidPasswords :
          (Starts(r, "signup") /\ HasUser(users, email) /\ SignupStart(r, email, password))
          => /\ reqs'[r].pc = "done"
             /\ reqs'[r].resp = AlreadyRegistered
             /\ reqs'[r].resp.status = 409
             /\ reqs'[r].resp.setSid = Missing
             /\ sessions' = sessions
             /\ users' = users
             /\ \A pw \in PasswordInputs :
                   LoginSucceeds(users', email, pw) <=> LoginSucceeds(users, email, pw)]_vars

\* C2 witness: a signup was answered 409 for an email whose account is stored,
\* while the other password still is not the account's.
C2_Witness ==
    \E r \in Reqs :
        /\ Answered(r, "signup")
        /\ reqs[r].resp = AlreadyRegistered
        /\ HasUser(users, reqs[r].email)
        /\ LoginSucceeds(users, reqs[r].email, Pw1)
        /\ ~LoginSucceeds(users, reqs[r].email, Pw2)

\* C3: a signup answered with success for (email, password) makes Login with
\* that pair succeed, and from then on Login with that pair keeps succeeding
\* whatever other requests run.
C3_SignupThenLogin ==
    [][/\ \A r \in Reqs :
             (Answers(r, "signup") /\ reqs'[r].resp.ok)
             => LoginSucceeds(users', reqs[r].email, reqs[r].password)
       /\ \A email \in ValidEmails : \A password \in ValidPasswords :
             LoginSucceeds(users, email, password) => LoginSucceeds(users', email, password)]_vars

\* C4: a login answered 401 creates no session, and any two logins answered 401
\* (wrong password, unknown email) carry the same response.
C4_LoginFailuresAlike ==
    \A r1 \in Reqs : \A r2 \in Reqs :
        (/\ Answered(r1, "login") /\ reqs[r1].resp.status = 401
         /\ Answered(r2, "login") /\ reqs[r2].resp.status = 401)
        => /\ reqs[r1].resp.setSid = Missing
           /\ reqs[r1].resp = reqs[r2].resp

\* C5: right after Logout with any cookie, /api/me with that cookie answers 401
\* Not authenticated, and it goes on answering 401 for as long as no signup or
\* login records a session under that same sid again.
C5_LogoutThenMe ==
    [][\A sid \in CookieInputs :
          /\ (\E r \in Reqs : Starts(r, "logout") /\ Logout(r, sid))
             => MeResponse(users', sessions', sid) = NotAuthenticated
          /\ (MeResponse(users, sessions, sid) = NotAuthenticated /\ ~Mints(sid))
             => MeResponse(users', sessions', sid) = NotAuthenticated]_vars

\* C5 witness: a logout was answered for a sid that had been issued by a signup
\* or login answered earlier, and /api/me with it now answers 401.
C5_Witness ==
    \E r1 \in Reqs : \E r2 \in Reqs :
        /\ Answered(r1, "logout") /\ reqs[r1].sid \in Sids
        /\ reqs[r2].pc = "done" /\ reqs[r2].resp.setSid = reqs[r1].sid
        /\ MeResponse(users, sessions, reqs[r1].sid) = NotAuthenticated

\* C6: the sid a signup or login for email e is answered with resolves, in
\* /api/me, to e and the id of e's account; and a sid that resolves to e keeps
\* resolving to e and the id of e's account through every step that is neither
\* a Logout with that sid nor records a session under that sid again.
C6_SessionRoundTrip ==
    [][/\ \A r \in Reqs :
             (reqs[r].pc # "done" /\ reqs'[r].pc = "done" /\ reqs'[r].resp.ok
              /\ reqs'[r].op \in {"signup", "login"})
             => /\ reqs'[r].resp.setSid \in Sids
                /\ HasUser(users', reqs[r].email)
                /\ MeResponse(users', sessions', reqs'[r].resp.setSid)
                      = Identity(users'[reqs[r].email])
                /\ MeResponse(users', sessions', reqs'[r].resp.setSid).email = reqs[r].email
       /\ \A sid \in Sids :
             (/\ MeResponse(users, sessions, sid).ok
              /\ ~Mints(sid)
              /\ ~\E r \in Reqs : Starts(r, "logout") /\ Logout(r, sid))
             => /\ HasSession(sessions', sid) /\ sessions'[sid] = sessions[sid]
                /\ HasUser(users', sessions[sid])
                /\ MeResponse(users', sessions', sid) = Identity(users'[sessions[sid]])
                /\ MeResponse(users', sessions', sid).email = sessions[sid]]_vars

\* C6 witness: a session issued by a login is still resolved by /api/me after
\* another request (a logout with another sid) has been answered.
C6_Witness ==
    \E r1 \in Reqs : \E r2 \in Reqs :
        /\ Answered(r1, "login") /\ reqs[r1].resp.ok
        /\ Answered(r2, "logout") /\ reqs[r2].sid \in Sids
        /\ reqs[r2].sid # reqs[r1].resp.setSid
        /\ MeResponse(users, sessions, reqs[r1].resp.setSid).ok
        /\ MeResponse(users, sessions, reqs[r1].resp.setSid).email = reqs[r1].email

\* C7: Logout is always answered 200 ok and leaves the accounts alone; after
\* it, a second Logout with the same cookie would leave the sessions as the
\* first one left them, and no session is left under that cookie's sid.
C7_LogoutIdempotent ==
    [][\A r \in Reqs : \A sid \in CookieInputs :
          (Starts(r, "logout") /\ Logout(r, sid))
          => /\ reqs'[r].pc = "done"
             /\ reqs'[r].resp.ok /\ reqs'[r].resp.status = 200
             /\ users' = users /\ now' = now
             /\ ~HasSession(sessions', sid)
             /\ LogoutSessions(sessions', sid) = sessions'
             /\ \A other \in (DOMAIN sessions) \ {sid} :
                   HasSession(sessions', other) /\ sessions'[other] = sessions[other]]_vars

\* C7 witness: two logouts with the same sid have both been answered ok, the
\* sid having been issued before, with another session still active.
C7_Witness ==
    /\ Answered(1, "logout") /\ Answered(2, "logout")
    /\ reqs[1].sid \in Sids /\ reqs[1].sid = reqs[2].sid
    /\ reqs[1].resp.ok /\ reqs[2].resp.ok
    /\ ~HasSession(sessions, reqs[1].sid)
    /\ DOMAIN sessions # {}

\* C8: a signup whose email is missing or malformed is answered 400 with field
\* 'email'; one with a valid email and a missing or short password is answered
\* 400 with field 'password'; both at once, without touching accounts or
\* sessions and without a cookie, also when the email already has an account.
C8_SignupValidation ==
    [][\A r \in Reqs : \A email \in EmailInputs : \A password \in PasswordInputs :
          (/\ Starts(r, "signup")
           /\ ~(email \in ValidEmails /\ password \in ValidPasswords)
           /\ SignupStart(r, email, password))
          => /\ reqs'[r].pc = "done"
             /\ reqs'[r].resp.status = 400
             /\ reqs'[r].resp.field = (IF email \in ValidEmails THEN "password" ELSE "email")
             /\ reqs'[r].resp.setSid = Missing
             /\ users' = users
             /\ sessions' = sessions]_vars

\* C8 witness: a signup for a registered email was answered 400 on its password.
C8_Witness ==
    \E r \in Reqs :
        /\ Answered(r, "signup")
        /\ reqs[r].resp = PasswordTooShort
        /\ HasUser(users, reqs[r].email)

\* lower-casing of a character and of a string
LowerChar(c) == IF c = "A" THEN "a" ELSE c
Normalize(s) == [k \in 1..Len(s) |-> LowerChar(s[k])]

\* C9: no two accounts have emails that normalize to the same address (emails
\* that differ only in letter case never both have an account).
C9_OneAccountPerNormalizedEmail ==
    \A e1 \in DOMAIN users : \A e2 \in DOMAIN users :
        Normalize(e1) = Normalize(e2) => e1 = e2

\* C10: /api/me answers 401 when the cookie is absent or names no session,
\* answers ok only for a sid that is in the sessions, and changes neither the
\* accounts nor the sessions.
C10_MeNeedsSession ==
    [][\A r \in Reqs : \A sid \in CookieInputs :
          (Starts(r, "me") /\ Me(r, sid))
          => /\ reqs'[r].pc = "done"
             /\ (Falsy(sid) \/ ~HasSession(sessions, sid))
                   => (reqs'[r].resp = NotAuthenticated /\ reqs'[r].resp.status = 401)
             /\ reqs'[r].resp.ok => HasSession(sessions, sid)
             /\ users' = users
             /\ sessions' = sessions]_vars

\* C10 witness: with an account stored and a session active, /api/me was
\* answered 401 for a sid that names no session.
C10_Witness ==
    \E r \in Reqs :
        /\ Answered(r, "me")
        /\ reqs[r].sid \in Sids
        /\ ~HasSession(sessions, reqs[r].sid)
        /\ reqs[r].resp = NotAuthenticated
        /\ DOMAIN sessions # {}

\* C11: a login never changes the accounts; one that is not answered with
\* success leaves the sessions as they were and sets no cookie.  Missing email
\* or password is answered 400, an unknown email 401, a password that does not
\* verify 401.  A login is answered with success, and records its session, only
\* when its password verifies against the hash that was stored for its email
\* when the login looked the account up (line 73).
C11_FailedLoginChangesNothing ==
    [][\A r \in Reqs :
          /\ (Starts(r, "login") \/ Answers(r, "login")) => users' = users
          /\ (Answers(r, "login") /\ ~reqs'[r].resp.ok)
             => /\ sessions' = sessions
                /\ reqs'[r].resp.setSid = Missing
                /\ reqs'[r].resp.status \in {400, 401, 500}
          /\ Starts(r, "login")
             => /\ sessions' = sessions
                /\ ~reqs'[r].resp.ok
                /\ (Falsy(reqs'[r].email) /\ reqs'[r].pc = "done")
                      => reqs'[r].resp.status = 400
                /\ (~Falsy(reqs'[r].email) /\ ~HasUser(users, reqs'[r].email))
                      => (reqs'[r].pc = "done" /\ reqs'[r].resp.status \in {400, 401})
                /\ reqs'[r].pc = "comparing"
                      => /\ HasUser(users, reqs'[r].email)
                         /\ reqs'[r].hash = users[reqs'[r].email].passwordHash
                /\ \A email \in EmailInputs : \A password \in PasswordInputs :
                      LoginStart(r, email, password)
                      => /\ (Falsy(email) \/ Falsy(password)) => reqs'[r].resp = MissingFields
                         /\ (~Falsy(email) /\ ~Falsy(password) /\ ~HasUser(users, email))
                               => reqs'[r].resp.status = 401
          /\ (Answers(r, "login") /\ reqs[r].pc = "comparing")
             => /\ (~BcryptCompare(reqs[r].password, reqs[r].hash) /\ reqs'[r].resp.status # 500)
                      => reqs'[r].resp.status = 401
                /\ reqs'[r].resp.ok
                      => /\ BcryptCompare(reqs[r].password, reqs[r].hash)
                         /\ reqs'[r].resp.setSid \in Sids
                         /\ sessions' = Put(sessions, reqs'[r].resp.setSid, reqs[r].email)]_vars

\* C11 witness: a login for a registered email was answered 401 on its
\* password while a session of that account is active.
C11_Witness ==
    \E r \in Reqs : \E sid \in DOMAIN sessions :
        /\ Answered(r, "login")
        /\ reqs[r].resp = WrongPassword
        /\ HasUser(users, reqs[r].email)
        /\ sessions[sid] = reqs[r].email

\* C12: an account is stored only by a signup that is answered with success
\* and a session in the same step, also when the notification sent after the
\* account write fails: a failing notification neither turns the signup into
\* an error nor leaves an account behind without a successful signup.
C12_NotifyFailureKeepsSignup ==
    [][users' # users
       => \E r \in Reqs :
             /\ Answers(r, "signup")
             /\ reqs'[r].resp.ok
             /\ HasSession(sessions', reqs'[r].resp.setSid)
             /\ sessions'[reqs'[r].resp.setSid] = reqs[r].email]_vars

\* C13: an account that exists is in every later state, with the same id, the
\* same passwordHash and the same createdAt: no step replaces, changes or
\* deletes it.
C13_AccountsImmutable ==
    [][\A email \in DOMAIN users :
          /\ HasUser(users', email)
          /\ users'[email].id = users[email].id
          /\ users'[email].passwordHash = users[email].passwordHash
          /\ users'[email].createdAt = users[email].createdAt]_vars

\* C14: every session maps its sid to an email that has an account, and a
\* step that records a session records it for an email whose account is stored.
C14_SessionsReferenceAccounts ==
    \A sid \in DOMAIN sessions : HasUser(users, sessions[sid])

\* C14 witness: sessions are active for two different accounts, one of them
\* recorded by a login.
C14_Witness ==
    /\ \E s1 \in DOMAIN sessions : \E s2 \in DOMAIN sessions :
          /\ sessions[s1] # sessions[s2]
          /\ HasUser(users, sessions[s1]) /\ HasUser(users, sessions[s2])
    /\ \E r \in Reqs : Answered(r, "login") /\ reqs[r].resp.ok

\* C15: when bcrypt.hash rejects in a signup or bcrypt.compare rejects in a
\* login, the request is answered 500 with the fixed message 'Server error',
\* no field and no cookie, and accounts and sessions are as they were before.
C15_HashFailureIsOpaque ==
    [][\A r \in Reqs :
          (/\ reqs[r].pc \in {"hashing", "comparing"}
           /\ (SignupHashFail(r) \/ LoginCompareFail(r)))
          => /\ reqs'[r].pc = "done"
             /\ reqs'[r].resp.status = 500
             /\ ~reqs'[r].resp.ok
             /\ reqs'[r].resp.message = "Server error"
             /\ reqs'[r].resp.field = NoField
             /\ reqs'[r].resp.setSid = Missing
             /\ reqs'[r].resp.email = Missing /\ reqs'[r].resp.id = NoId
             /\ users' = users
             /\ sessions' = sessions]_vars

\* C15 witness: a signup was answered 500 and its email has no account, and a
\* login was answered 500 and no session exists.
C15_Witness ==
    /\ \E r \in Reqs :
          Answered(r, "signup") /\ reqs[r].resp = ServerError /\ ~HasUser(users, reqs[r].email)
    /\ \E r \in Reqs :
          Answered(r, "login") /\ reqs[r].resp = ServerError /\ HasUser(users, reqs[r].email)
    /\ DOMAIN sessions = {}

\* request r is suspended at its await
Suspended(r) == reqs[r].pc \in {"hashing", "comparing"}

\* C16: a signup or login that got past its checks is answered only by the
\* step that resumes it from its await (hashing or comparing); the step that
\* takes it in writes nothing; the step that answers a signup with success has
\* stored the account with the hash of its password and the session of its
\* cookie; and while a request is suspended, a free handler can take another
\* request in and answer it in that same step.
C16_AnswerAfterHash ==
    [][\A r \in Reqs :
          /\ (Starts(r, "signup") \/ Starts(r, "login"))
             => /\ users' = users /\ sessions' = sessions
                /\ ~reqs'[r].resp.ok
                /\ reqs'[r].pc = "done" => reqs'[r].resp.status \in {400, 401, 409}
                /\ reqs'[r].pc # "done" => (Suspended(r)' /\ reqs'[r].resp = NoResponse)
          /\ (Answers(r, "signup") /\ reqs'[r].resp.status \in {200, 500})
             => reqs[r].pc = "hashing"
          /\ (Answers(r, "login") /\ (reqs'[r].resp.status \in {200, 500} \/ reqs'[r].resp = WrongPassword))
             => reqs[r].pc = "comparing"
          /\ (Answers(r, "signup") /\ reqs'[r].resp.ok)
             => /\ HasUser(users', reqs[r].email)
                /\ BcryptCompare(reqs[r].password, users'[reqs[r].email].passwordHash)
                /\ HasSession(sessions', reqs'[r].resp.setSid)
                /\ sessions'[reqs'[r].resp.setSid] = reqs[r].email
          /\ Suspended(r)
             => \A r2 \in Reqs \ {r} :
                   reqs[r2].pc = "idle"
                   => /\ ENABLED Me(r2, Missing)
                      /\ ENABLED Logout(r2, Missing)
                      /\ ENABLED LoginStart(r2, EmailBad, PwShort)
                      /\ ENABLED SignupStart(r2, EmailBad, PwShort)]_vars

\* C16 witness: a login is suspended in bcrypt.compare while a signup that was
\* also suspended has been resumed and answered with success.
C16_Witness ==
    \E r1 \in Reqs : \E r2 \in Reqs :
        /\ reqs[r1].pc = "comparing"
        /\ Answered(r2, "signup") /\ reqs[r2].resp.ok
        /\ reqs[r2].email # reqs[r1].email
        /\ HasUser(users, reqs[r2].email)

\* C17: a step that records a session records it under a sid that is not in
\* use, so it adds exactly one session and changes no session that exists:
\* every sid in use keeps the email it resolves to.
C17_FreshSid ==
    [][\A sid \in Sids :
          Mints(sid)
          => /\ ~HasSession(sessions, sid)
             /\ Cardinality(DOMAIN sessions') = Cardinality(DOMAIN sessions) + 1
             /\ \A other \in DOMAIN sessions :
                   HasSession(sessions', other) /\ sessions'[other] = sessions[other]]_vars

\* C18: a sid that is in the sessions stays in them through every step that
\* is not a Logout with that very sid as its cookie; a Logout leaves the
\* accounts and every session under another sid as they were; signup, login
\* and /api/me remove no sid.
C18_OnlyLogoutRemoves ==
    [][/\ \A sid \in DOMAIN sessions :
             ~HasSession(sessions', sid)
             => \E r \in Reqs : Starts(r, "logout") /\ Logout(r, sid)
       /\ \A r \in Reqs :
             Starts(r, "logout")
             => /\ users' = users
                /\ \A sid \in DOMAIN sessions :
                      sid # reqs'[r].sid
                      => HasSession(sessions', sid) /\ sessions'[sid] = sessions[sid]
       /\ \A r \in Reqs :
             (Starts(r, "signup") \/ Starts(r, "login") \/ Starts(r, "me")
              \/ Answers(r, "signup") \/ Answers(r, "login"))
             => DOMAIN sessions \subseteq DOMAIN sessions']_vars

\* C18 witness: a logout with the sid of one session of an account was
\* answered; that sid is gone and another session of the same account is
\* still active, recorded by a login that has been answered.
C18_Witness ==
    \E r1 \in Reqs : \E r2 \in Reqs :
        /\ Answered(r1, "logout") /\ reqs[r1].sid \in Sids
        /\ ~HasSession(sessions, reqs[r1].sid)
        /\ Answered(r2, "login") /\ reqs[r2].resp.ok
        /\ reqs[r2].resp.setSid # reqs[r1].sid
        /\ HasSession(sessions, reqs[r2].resp.setSid)
        /\ sessions[reqs[r2].resp.setSid] = reqs[r2].email

====
